---- MODULE Spec2Model ----
(***************************************************************************)
(* A model of gpodder/util.py: the helper functions of gPodder.  Every     *)
(* helper is independent of the others, so each gets a specification of    *)
(* its own (SpecNormalize, SpecUserPass, ...) over the same variables; the *)
(* variables a specification does not use keep their initial value.        *)
(*                                                                         *)
(* Python strings are sequences of one-character strings, indexed from 0   *)
(* by the Py* operators as Python indexes them.  A call's outcome is       *)
(* Return(v) or Raise(e).                                                  *)
(***************************************************************************)
EXTENDS Integers, Sequences, FiniteSets, TLC

VARIABLES
    fs,          \* the filesystem: path -> node
    icon_cache,  \* the icon_cache dictionary handed to get_tree_icon
    icon_theme,  \* the names the default icon theme can load
    loaded,      \* the names the last get_tree_icon call asked the theme for
    lc_time,     \* the process-wide LC_TIME locale
    pc,          \* position of the running call
    call,        \* arguments of the running / last call
    ret          \* outcome of the last call

vars == <<fs, icon_cache, icon_theme, loaded, lc_time, pc, call, ret>>

(***************************************************************************)
(* Python values and outcomes                                              *)
(***************************************************************************)
None == [type |-> "NoneType"]
Str(s) == [type |-> "str", s |-> s]
PyInt(n) == [type |-> "int", n |-> n]
Tuple2(a, b) == [type |-> "tuple", a |-> a, b |-> b]
PyBool(b) == [type |-> "bool", b |-> b]

Return(v) == [out |-> "return", value |-> v]
Raise(e) == [out |-> "raise", exc |-> e]
NoCall == [out |-> "none"]

Min(a, b) == IF a < b THEN a ELSE b
Max(a, b) == IF a > b THEN a ELSE b

(***************************************************************************)
(* Python's str operations, on sequences of characters                     *)
(***************************************************************************)
\* s[a:b]; a negative index counts from the end, both are clamped
PyIndexNorm(s, i) == IF i < 0 THEN Max(i + Len(s), 0) ELSE Min(i, Len(s))
PySlice(s, a, b) ==
    LET lo == PyIndexNorm(s, a)
        hi == PyIndexNorm(s, b)
    IN  IF lo >= hi THEN <<>> ELSE SubSeq(s, lo + 1, hi)
\* s[a:]
PyFrom(s, a) == PySlice(s, a, Len(s))
\* s.startswith(p)
PyStartsWith(s, p) == Len(s) >= Len(p) /\ SubSeq(s, 1, Len(p)) = p
\* s.find(sub, start): the lowest 0-based index >= start, or -1
PyFind(s, sub, start) ==
    LET hits == {i \in start..(Len(s) - Len(sub)) :
                    SubSeq(s, i + 1, i + Len(sub)) = sub}
    IN  IF hits = {} THEN -1 ELSE CHOOSE i \in hits : \A j \in hits : i <= j
\* s.split(sep, 1)
PySplit1(s, sep) ==
    LET i == PyFind(s, sep, 0)
    IN  IF i = -1 THEN <<s>>
        ELSE <<PySlice(s, 0, i), PyFrom(s, i + Len(sep))>>
\* sub in s
PyIn(sub, s) == PyFind(s, sub, 0) # -1

RECURSIVE Flatten(_)
Flatten(chunks) ==
    IF chunks = <<>> THEN <<>> ELSE Head(chunks) \o Flatten(Tail(chunks))

\* all sequences over S of length at most n
SeqsUpTo(S, n) == UNION {[1..k -> S] : k \in 0..n}

(***************************************************************************)
(* normalize_feed_url                                                      *)
(***************************************************************************)
HTTP == <<"h", "t", "t", "p", ":", "/", "/">>
FTP == <<"f", "t", "p", ":", "/", "/">>
FEED == <<"f", "e", "e", "d", ":", "/", "/">>
HTTPS == <<"h", "t", "t", "p", "s", ":", "/", "/">>

\* `not url`
Falsy(v) == v = None \/ (v.type = "str" /\ v.s = <<>>)

normalize_feed_url(url) ==
    IF Falsy(url) \/ Len(url.s) < 8 THEN None
    ELSE IF PyStartsWith(url.s, HTTP) \/ PyStartsWith(url.s, FTP) THEN url
    ELSE IF PyStartsWith(url.s, FEED) THEN Str(HTTP \o PyFrom(url.s, 7))
    ELSE None

\* the URLs tried: up to MaxUrlChunks pieces, each a scheme prefix or host text
MaxUrlChunks == 3
UrlChunks == {HTTP, FTP, FEED, HTTPS, <<"a">>, <<"b", "c">>, <<"/">>}
FeedUrls == {None} \cup {Str(Flatten(c)) : c \in SeqsUpTo(UrlChunks, MaxUrlChunks)}

\* the parts of the state a specification does not use
NoFs == fs = <<>>
NoGui == icon_cache = <<>> /\ icon_theme = {} /\ loaded = <<>>
NoLocale == lc_time = "C"
NotCalled == pc = "idle" /\ ret = NoCall

InitNormalize == NoFs /\ NoGui /\ NoLocale /\ NotCalled /\ call \in FeedUrls

NormalizeFeedUrl ==
    /\ pc = "idle"
    /\ pc' = "done"
    /\ ret' = Return(normalize_feed_url(call))
    /\ UNCHANGED <<fs, icon_cache, icon_theme, loaded, lc_time, call>>

SpecNormalize == InitNormalize /\ [][NormalizeFeedUrl]_vars

\* C7: normalize_feed_url returns every URL that starts with 'http://' or
\* 'ftp://' unchanged, 'http://' plus the rest for every URL that starts with
\* 'feed://', and None for every other input; a non-None result starts with
\* 'http://' or 'ftp://'.
C7_AsClaimed ==
    pc = "done" =>
        /\ ret.out = "return"
        /\ ret.value =
              IF call = None THEN None
              ELSE IF PyStartsWith(call.s, HTTP) \/ PyStartsWith(call.s, FTP)
                   THEN call
              ELSE IF PyStartsWith(call.s, FEED)
                   THEN Str(HTTP \o PyFrom(call.s, 7))
              ELSE None
        /\ ret.value # None =>
              PyStartsWith(ret.value.s, HTTP) \/ PyStartsWith(ret.value.s, FTP)

(***************************************************************************)
(* username_password_from_url                                              *)
(***************************************************************************)
\* str.lower() on the characters the model uses
Lower(c) ==
    CASE c = "F" -> "f" [] c = "T" -> "t" [] c = "P" -> "p" [] OTHER -> c
LowerStr(s) == [i \in 1..Len(s) |-> Lower(s[i])]

\* urlparse.scheme_chars
SchemeChars ==
    {"a", "b", "c", "d", "e", "f", "h", "p", "s", "t", "u", "w",
     "F", "T", "P", "0", "4", "+", "-", "."}
\* urlparse.uses_netloc, as far as the model's alphabet can spell it
UsesNetloc ==
    {<<"f", "t", "p">>, <<"h", "t", "t", "p">>, <<"h", "t", "t", "p", "s">>, <<>>}

\* urlparse._splitnetloc(url, 2): the netloc ends at the first '/', else '?', else '#'
SplitNetloc(url) ==
    LET slash == PyFind(url, <<"/">>, 2)
        quest == PyFind(url, <<"?">>, 2)
        hash == PyFind(url, <<"#">>, 2)
        delim == IF slash >= 0 THEN slash
                 ELSE IF quest >= 0 THEN quest
                 ELSE IF hash >= 0 THEN hash
                 ELSE Len(url)
    IN  PySlice(url, 2, delim)

\* urlparse.urlparse(url)[1]
UrlparseNetloc(url) ==
    LET i == PyFind(url, <<":">>, 0)
        head == PySlice(url, 0, i)
        isScheme == i > 0 /\ \A k \in 1..i : url[k] \in SchemeChars
        scheme == IF isScheme THEN LowerStr(head) ELSE <<>>
        rest == IF isScheme THEN PyFrom(url, i + 1) ELSE url
    IN  IF i > 0 /\ head = <<"h", "t", "t", "p">>
        THEN IF PySlice(PyFrom(url, i + 1), 0, 2) = <<"/", "/">>
             THEN SplitNetloc(PyFrom(url, i + 1)) ELSE <<>>
        ELSE IF scheme \in UsesNetloc /\ PySlice(rest, 0, 2) = <<"/", "/">>
             THEN SplitNetloc(rest) ELSE <<>>

HexDigits == {"0", "4", "a", "b", "c", "d", "e", "f"}
HexVal(c) ==
    CASE c = "0" -> 0 [] c = "4" -> 4 [] c = "a" -> 10 [] c = "b" -> 11
      [] c = "c" -> 12 [] c = "d" -> 13 [] c = "e" -> 14 [] c = "f" -> 15
\* chr(n) for the codes the model's inputs can spell; "?" stands for any other
Chr(n) == CASE n = 64 -> "@" [] OTHER -> "?"

\* urllib.unquote(s)
RECURSIVE Unquote(_)
Unquote(s) ==
    IF s = <<>> THEN <<>>
    ELSE IF s[1] = "%" /\ Len(s) >= 3 /\ s[2] \in HexDigits /\ s[3] \in HexDigits
         THEN <<Chr(16 * HexVal(s[2]) + HexVal(s[3]))>> \o Unquote(PyFrom(s, 3))
    ELSE <<s[1]>> \o Unquote(Tail(s))

username_password_from_url(url) ==
    LET netloc == UrlparseNetloc(url)
    IN  IF PyIn(<<"@">>, netloc)
        THEN LET parts == PySplit1(PySplit1(netloc, <<"@">>)[1], <<":">>)
             IN  IF Len(parts) # 2
                 THEN Raise("ValueError")   \* the 2-tuple unpacking
                 ELSE Return(Tuple2(Str(Unquote(parts[1])), Str(Unquote(parts[2]))))
        ELSE Return(Tuple2(None, None))

MaxAuthChunks == 4
AuthChunks ==
    {HTTP, <<"F", "T", "P", ":", "/", "/">>, <<"/", "/">>, <<"u">>, <<":">>,
     <<"p", "w">>, <<"@">>, <<"h">>, <<"%", "4", "0">>, <<"%">>}
AuthUrls == {Flatten(c) : c \in SeqsUpTo(AuthChunks, MaxAuthChunks)}

InitUserPass == NoFs /\ NoGui /\ NoLocale /\ NotCalled /\ call \in AuthUrls

UsernamePasswordFromUrl ==
    /\ pc = "idle"
    /\ pc' = "done"
    /\ ret' = username_password_from_url(call)
    /\ UNCHANGED <<fs, icon_cache, icon_theme, loaded, lc_time, call>>

SpecUserPass == InitUserPass /\ [][UsernamePasswordFromUrl]_vars

\* C6: username_password_from_url returns a pair for every URL and never
\* raises: (None, None) when the authority holds no '@', otherwise the
\* percent-decoded username and password from the part before the first '@',
\* split at its first ':' (also when there is a username but no ':password').
C6_AsClaimed ==
    pc = "done" =>
        LET netloc == UrlparseNetloc(call)
            userinfo == PySlice(netloc, 0, PyFind(netloc, <<"@">>, 0))
            colon == PyFind(userinfo, <<":">>, 0)
        IN  /\ ret.out = "return"
            /\ ret.value.type = "tuple"
            /\ ~PyIn(<<"@">>, netloc) => ret.value = Tuple2(None, None)
            /\ (PyIn(<<"@">>, netloc) /\ colon >= 0) =>
                  ret.value = Tuple2(Str(Unquote(PySlice(userinfo, 0, colon))),
                                     Str(Unquote(PyFrom(userinfo, colon + 1))))
            /\ (PyIn(<<"@">>, netloc) /\ colon < 0) =>
                  ret.value.a = Str(Unquote(userinfo))

(***************************************************************************)
(* torrent_filename                                                        *)
(***************************************************************************)
PIECES == <<"6", ":", "p", "i", "e", "c", "e", "s">>
NAME == <<"4", ":", "n", "a", "m", "e">>

Digits == {"0", "1", "2", "3", "4", "5", "6", "7", "8", "9"}
DigitVal(c) ==
    CASE c = "0" -> 0 [] c = "1" -> 1 [] c = "2" -> 2 [] c = "3" -> 3
      [] c = "4" -> 4 [] c = "5" -> 5 [] c = "6" -> 6 [] c = "7" -> 7
      [] c = "8" -> 8 [] c = "9" -> 9
Whitespace == {" ", "\n", "\t"}

RECURSIVE DecimalValue(_)
DecimalValue(s) ==
    IF s = <<>> THEN 0
    ELSE 10 * DecimalValue(SubSeq(s, 1, Len(s) - 1)) + DigitVal(s[Len(s)])

RECURSIVE Strip(_)
Strip(s) ==
    IF s # <<>> /\ s[1] \in Whitespace THEN Strip(Tail(s))
    ELSE IF s # <<>> /\ s[Len(s)] \in Whitespace THEN Strip(SubSeq(s, 1, Len(s) - 1))
    ELSE s

\* int(s): surrounding whitespace and one sign are accepted, then digits only
PyIntOf(s) ==
    LET t == Strip(s)
        signed == t # <<>> /\ t[1] \in {"+", "-"}
        digits == IF signed THEN Tail(t) ELSE t
    IN  IF digits = <<>> \/ \E i \in 1..Len(digits) : digits[i] \notin Digits
        THEN Raise("ValueError")
        ELSE Return(IF signed /\ t[1] = "-" THEN 0 - DecimalValue(digits)
                    ELSE DecimalValue(digits))

\* file.readline(): the first line, with its newline
Readline(data) ==
    LET nl == PyFind(data, <<"\n">>, 0)
    IN  IF nl = -1 THEN data ELSE PySlice(data, 0, nl + 1)

\* the try block of torrent_filename
ParseHeader(header) ==
    IF PyFind(header, PIECES, 0) = -1 THEN None
    ELSE IF PyFind(header, NAME, 0) = -1 THEN None
    ELSE LET name_length_pos == PyFind(header, NAME, 0) + 6
             colon_pos == PyFind(header, <<":">>, name_length_pos)
             parsed == PyIntOf(PySlice(header, name_length_pos, colon_pos))
         IN  IF parsed.out = "raise" THEN None
             ELSE LET name_length == parsed.value + 1
                  IN  Str(PySlice(header, colon_pos + 1, colon_pos + name_length))

torrent_filename(file) ==
    IF file.kind = "absent" THEN Return(None)
    ELSE IF file.kind # "file" THEN Raise("IOError")   \* open() is outside the try
    ELSE Return(ParseHeader(Readline(file.data)))

MaxTorrentChunks == 4
TorrentChunks ==
    {PIECES, NAME, <<"2">>, <<"1", "0">>, <<":">>, <<"a", "b">>, <<"x">>,
     <<"-">>, <<" ">>, <<"\n">>}
TorrentFiles ==
    {[kind |-> "absent"], [kind |-> "dir"]}
    \cup {[kind |-> "file", data |-> Flatten(c)] :
            c \in SeqsUpTo(TorrentChunks, MaxTorrentChunks)}

InitTorrent ==
    /\ fs \in [{"f.torrent"} -> TorrentFiles]
    /\ call = "f.torrent"
    /\ NoGui /\ NoLocale /\ NotCalled

TorrentFilename ==
    /\ pc = "idle"
    /\ pc' = "done"
    /\ ret' = torrent_filename(fs[call])
    /\ UNCHANGED <<fs, icon_cache, icon_theme, loaded, lc_time, call>>

SpecTorrent == InitTorrent /\ [][TorrentFilename]_vars

\* the decimal length that directly follows the first '4:name' and is ended
\* by ':': <<digits, index of the ':'>>, or <<>> when there is none
DeclaredLength(header) ==
    LET start == PyFind(header, NAME, 0) + 6
        ends == {j \in start + 1..Len(header) - 1 :
                    /\ header[j + 1] = ":"
                    /\ \A k \in start..j - 1 : header[k + 1] \in Digits}
    IN  IF ends = {} THEN <<>>
        ELSE LET j == CHOOSE j \in ends : TRUE
             IN  <<DecimalValue(PySlice(header, start, j)), j>>

\* C10: torrent_filename returns None when the file does not exist and on
\* every parse failure of its first line (no '6:pieces', no '4:name', or no
\* decimal length ended by ':' directly after '4:name'); otherwise it returns
\* exactly the declared number of characters that follow that ':'.
C10_AsClaimed ==
    (pc = "done" /\ fs[call].kind # "dir") =>
        LET file == fs[call]
            header == Readline(file.data)
        IN  /\ ret.out = "return"
            /\ IF file.kind = "absent" THEN ret.value = None
               ELSE IF PyFind(header, PIECES, 0) = -1 THEN ret.value = None
               ELSE IF PyFind(header, NAME, 0) = -1 THEN ret.value = None
               ELSE IF DeclaredLength(header) = <<>> THEN ret.value = None
               ELSE LET n == DeclaredLength(header)[1]
                        colon == DeclaredLength(header)[2]
                    IN  /\ ret.value.type = "str"
                        /\ Len(ret.value.s) = n
                        /\ ret.value.s = PySlice(header, colon + 1, colon + 1 + n)

(***************************************************************************)
(* format_filesize                                                         *)
(***************************************************************************)
methods ==
    [GB |-> 1024 * 1024 * 1024, MB |-> 1024 * 1024, KB |-> 1024, B |-> 1]

GB == <<"G", "B">>
MB == <<"M", "B">>
KB == <<"K", "B">>
B == <<"B">>
UnitSize(unit) ==
    CASE unit = GB -> methods.GB [] unit = MB -> methods.MB
      [] unit = KB -> methods.KB [] unit = B -> methods.B

\* `method not in methods`
InMethods(method) == method.type = "str" /\ method.s \in {GB, MB, KB, B}

\* _('(unknown)')
Unknown == [type |-> "str", sentinel |-> "(unknown)"]

\* float(bytesize) for an int, a str or None
PyFloat(v) ==
    IF v.type = "int" THEN Return(v.n)
    ELSE IF v.type = "str" THEN PyIntOf(v.s)
    ELSE Raise("TypeError")

\* '%.2f %s' % (bytesize / size, unit): the integer part, the two decimals
\* (the exact quotient rounded half to even, as printf rounds) and the unit
Format2f(bytesize, size, unit) ==
    LET whole == bytesize \div size
        rest == bytesize % size
        m == size \div 1024
        hi == (rest \div 1024) * 100 + ((rest % 1024) * 100) \div 1024
        lo == ((rest % 1024) * 100) % 1024
        q == IF size = 1 THEN 0 ELSE hi \div m
        r == IF size = 1 THEN 0 ELSE (hi % m) * 1024 + lo
        up == 2 * r > size \/ (2 * r = size /\ q % 2 = 1)
        cents == IF up THEN q + 1 ELSE q
    IN  [type |-> "str",
         whole |-> IF cents = 100 THEN whole + 1 ELSE whole,
         frac |-> IF cents = 100 THEN 0 ELSE cents,
         unit |-> unit]

AutoMethod_strict(bytesize) ==
    IF bytesize > methods.GB THEN GB
    ELSE IF bytesize > methods.MB THEN MB
    ELSE IF bytesize > methods.KB THEN KB
    ELSE B

\* method = 'B'; for trying in ('KB', 'MB', 'GB'): the last one that fits wins
AutoMethod(bytesize) ==
    LET m0 == B
        m1 == IF bytesize >= methods.KB THEN KB ELSE m0
        m2 == IF bytesize >= methods.MB THEN MB ELSE m1
        m3 == IF bytesize >= methods.GB THEN GB ELSE m2
    IN  m3

format_filesize(bytesize, method) ==
    LET size == PyFloat(bytesize)
    IN  IF size.out = "raise" THEN Unknown
        ELSE IF size.value < 0 THEN Unknown
        ELSE LET unit == IF InMethods(method) THEN method.s
                         ELSE AutoMethod(size.value)
             IN  Format2f(size.value, UnitSize(unit), unit)

\* sizes tried: within MaxDelta of each unit's size, and its first multiples
MaxDelta == 2
Bytesizes ==
    {PyInt(n) : n \in (0 - MaxDelta)..MaxDelta}
    \cup {PyInt(s + d) : s \in {methods.KB, methods.MB, methods.GB},
                         d \in (0 - MaxDelta)..MaxDelta}
    \cup {PyInt(k * s + s \div 8) : s \in {methods.KB, methods.MB}, k \in 0..MaxDelta}
    \cup {Str(<<"x">>), Str(<<>>), Str(<<"1", "0", "2", "4">>), Str(<<"-", "1">>), None}
Methods == {None, Str(GB), Str(MB), Str(KB), Str(B), Str(<<"T", "B">>)}

InitFilesize ==
    /\ call \in [bytesize : Bytesizes, method : Methods]
    /\ NoFs /\ NoGui /\ NoLocale /\ NotCalled

FormatFilesize ==
    /\ pc = "idle"
    /\ pc' = "done"
    /\ ret' = Return(format_filesize(call.bytesize, call.method))
    /\ UNCHANGED <<fs, icon_cache, icon_theme, loaded, lc_time, call>>

SpecFilesize == InitFilesize /\ [][FormatFilesize]_vars

\* the number an argument stands for, if it is numeric
IsNumeric(v) ==
    \/ v.type = "int"
    \/ v.type = "str" /\ v.s # <<>> /\ \A i \in 1..Len(v.s) : v.s[i] \in Digits
NumberOf(v) == IF v.type = "int" THEN v.n ELSE DecimalValue(v.s)

\* C8: for a non-negative numeric bytesize with no unit requested the unit is
\* the largest of B, KB, MB, GB whose size does not exceed bytesize, and B below
\* 1024; a requested unit among those four is used whatever the size; a
\* negative or non-numeric bytesize gives the '(unknown)' sentinel, no unit.
C8_UnitChosen ==
    pc = "done" =>
        LET v == call.bytesize
            fits == {u \in {B, KB, MB, GB} : UnitSize(u) <= NumberOf(v)}
        IN  /\ ret.out = "return"
            /\ (IsNumeric(v) /\ NumberOf(v) >= 0 /\ call.method = None) =>
                  /\ NumberOf(v) < 1024 => ret.value.unit = B
                  /\ fits # {} =>
                        /\ ret.value.unit \in fits
                        /\ \A u \in fits : UnitSize(u) <= UnitSize(ret.value.unit)
            /\ (IsNumeric(v) /\ NumberOf(v) >= 0 /\ InMethods(call.method)) =>
                  ret.value.unit = call.method.s
            /\ (~IsNumeric(v) \/ (v.type = "int" /\ v.n < 0)) =>
                  ret.value = Unknown

C8_Witness ==
    /\ pc = "done"
    /\ call = [bytesize |-> PyInt(methods.MB), method |-> None]
    /\ ret = Return([type |-> "str", whole |-> 1, frac |-> 0, unit |-> MB])

(***************************************************************************)
(* object_string_formatter                                                 *)
(***************************************************************************)
\* '{%s.' % key
Opening(key) == <<"{">> \o key \o <<".">>
\* '{%s.%s}' % (key, attr)
Placeholder(key, attr) == Opening(key) \o attr \o <<"}">>

\* re.findall(r'\{%s\.([^\}]+)\}' % key, s) from index i on: the matches do
\* not overlap, and [^\}]+ takes at least one character up to the next '}'
RECURSIVE FindAll(_, _, _)
FindAll(s, key, i) ==
    IF i >= Len(s) THEN <<>>
    ELSE LET start == i + Len(Opening(key))
             close == PyFind(s, <<"}">>, start)
         IN  IF PySlice(s, i, start) = Opening(key) /\ close > start
             THEN <<PySlice(s, start, close)>> \o FindAll(s, key, close + 1)
             ELSE FindAll(s, key, i + 1)

\* s.replace(old, new): every occurrence, left to right, none overlapping
RECURSIVE PyReplace(_, _, _)
PyReplace(s, old, new) ==
    LET i == PyFind(s, old, 0)
    IN  IF i = -1 THEN s
        ELSE PySlice(s, 0, i) \o new \o PyReplace(PyFrom(s, i + Len(old)), old, new)

\* hasattr(o, attr)
HasAttr(o, attr) == attr \in DOMAIN o

\* the loop over matches: acc is [result, log]
RECURSIVE ReplaceMatches(_, _, _, _)
ReplaceMatches(acc, key, o, matches) ==
    IF matches = <<>> THEN acc
    ELSE LET attr == Head(matches)
             next ==
                 IF ~HasAttr(o, attr) THEN acc
                 ELSE IF o[attr].type # "str"
                      \* str.replace raises TypeError: caught and logged
                      THEN [acc EXCEPT !.log = Append(@, attr)]
                 ELSE [acc EXCEPT
                          !.result = PyReplace(@, Placeholder(key, attr), o[attr].s)]
         IN  ReplaceMatches(next, key, o, Tail(matches))

\* the loop over kwargs.items(); the matches are always looked up in s
RECURSIVE ReplaceItems(_, _, _)
ReplaceItems(acc, s, items) ==
    IF items = <<>> THEN acc
    ELSE LET key == Head(items)[1]
             o == Head(items)[2]
         IN  ReplaceItems(ReplaceMatches(acc, key, o, FindAll(s, key, 0)),
                          s, Tail(items))

object_string_formatter(s, items) ==
    LET done == ReplaceItems([result |-> s, log |-> <<>>], s, items)
    IN  [out |-> "return", value |-> Str(done.result), log |-> done.log]

\* the objects and templates tried
AttrValues ==
    {Str(<<"y">>), Str(<<>>), Str(<<"{", "e", ".", "b", "}">>), PyInt(5)}
Episodes == [{<<"a">>, <<"b">>} -> AttrValues]
Channels == [{<<"a">>} -> {Str(<<"z">>), Str(<<"{", "e", ".", "a", "}">>)}]
KeywordItems ==
    {<<>>}
    \cup {<<<<<<"e">>, e>>>> : e \in Episodes}
    \cup {<<<<<<"e">>, e>>, <<<<"f">>, f>>>> : e \in Episodes, f \in Channels}
    \cup {<<<<<<"f">>, f>>, <<<<"e">>, e>>>> : e \in Episodes, f \in Channels}
MaxTemplateChunks == 2
TemplateChunks ==
    {Placeholder(<<"e">>, <<"a">>), Placeholder(<<"e">>, <<"b">>),
     Placeholder(<<"e">>, <<"c">>), Placeholder(<<"f">>, <<"a">>),
     Opening(<<"e">>), <<"}">>, <<"x">>}
Templates == {Flatten(c) : c \in SeqsUpTo(TemplateChunks, MaxTemplateChunks)}

InitFormatter ==
    /\ call \in [s : Templates, items : KeywordItems]
    /\ NoFs /\ NoGui /\ NoLocale /\ NotCalled

ObjectStringFormatter ==
    /\ pc = "idle"
    /\ pc' = "done"
    /\ ret' = object_string_formatter(call.s, call.items)
    /\ UNCHANGED <<fs, icon_cache, icon_theme, loaded, lc_time, call>>

SpecFormatter == InitFormatter /\ [][ObjectStringFormatter]_vars

\* the placeholder '{name.attr}' that starts at index i of s and is to be
\* replaced: name is a passed object, attr exists and its value is a string;
\* <<>> when there is none, else <<value, index after the '}'>>
PlaceholderAt(s, items, i) ==
    LET hits == {k \in 1..Len(items) :
                    LET start == i + Len(Opening(items[k][1]))
                        close == PyFind(s, <<"}">>, start)
                        attr == PySlice(s, start, close)
                    IN  /\ PySlice(s, i, start) = Opening(items[k][1])
                        /\ close > start
                        /\ HasAttr(items[k][2], attr)
                        /\ items[k][2][attr].type = "str"}
    IN  IF hits = {} THEN <<>>
        ELSE LET k == CHOOSE k \in hits : TRUE
                 start == i + Len(Opening(items[k][1]))
                 close == PyFind(s, <<"}">>, start)
             IN  <<items[k][2][PySlice(s, start, close)].s, close + 1>>

\* s with each such placeholder replaced by its value and all else kept
RECURSIVE Substituted(_, _, _)
Substituted(s, items, i) ==
    IF i >= Len(s) THEN <<>>
    ELSE LET hit == PlaceholderAt(s, items, i)
         IN  IF hit = <<>> THEN <<s[i + 1]>> \o Substituted(s, items, i + 1)
             ELSE hit[1] \o Substituted(s, items, hit[2])

\* C9: object_string_formatter returns s with every occurrence of each
\* placeholder '{name.attr}' whose attribute exists replaced by that attribute's
\* value; placeholders with an absent attribute or an unknown name and all
\* other text stay as in s; a failing replacement is logged and skipped and
\* the call never raises.
C9_AsClaimed ==
    pc = "done" =>
        /\ ret.out = "return"
        /\ ret.value = Str(Substituted(call.s, call.items, 0))

(***************************************************************************)
(* calculate_size                                                          *)
(*                                                                         *)
(* A path is the sequence of its components below '/', so <<>> is '/'.     *)
(* A node is absent, a regular file, a directory (listable or not), a      *)
(* symbolic link (to a file, to a directory, or dangling) or something     *)
(* else (a fifo, a device).                                                *)
(***************************************************************************)
Root == <<>>
Absent == [kind |-> "absent"]
File(size) == [kind |-> "file", size |-> size]
Dir(size, listable) == [kind |-> "dir", size |-> size, listable |-> listable]
Link(to) == [kind |-> "link", to |-> to]
Other == [kind |-> "other"]

\* os.path.dirname(path), os.path.join(path, item)
Dirname(path) == IF Len(path) <= 1 THEN Root ELSE SubSeq(path, 1, Len(path) - 1)
Join(path, item) == Append(path, item)

\* stat() of a path: '/' and '/m' are directories, and what the model does
\* not hold is absent
Mount == <<"m">>
NodeAt(f, path) ==
    IF path \in {Root, Mount} THEN Dir(0, TRUE)
    ELSE IF path \in DOMAIN f THEN f[path]
    ELSE Absent
\* the node a path leads to once a symbolic link is followed
Target(f, path) ==
    LET n == NodeAt(f, path) IN IF n.kind = "link" THEN n.to ELSE n

\* os.path.isfile, os.path.isdir, os.path.islink, os.path.getsize
IsFile(f, path) == Target(f, path).kind = "file"
IsDir(f, path) == Target(f, path).kind = "dir"
IsLink(f, path) == NodeAt(f, path).kind = "link"
GetSize(f, path) == Target(f, path).size

\* os.listdir(path): the names present in a directory
Listdir(f, path) ==
    {q[Len(q)] : q \in {q \in DOMAIN f : Len(q) = Len(path) + 1
                                          /\ SubSeq(q, 1, Len(path)) = path
                                          /\ f[q].kind # "absent"}}

IsPlainDir_follow(f, path) == IsDir(f, path)

\* os.path.isdir(path) and not os.path.islink(path)
IsPlainDir(f, path) == IsDir(f, path) /\ ~IsLink(f, path)

\* try: sum += ... except: pass
EntrySize(r) == IF r.out = "raise" THEN 0 ELSE r.value

RECURSIVE calculate_size(_, _)
RECURSIVE SumItems(_, _, _)
\* the for loop over os.listdir(path)
SumItems(f, path, items) ==
    IF items = {} THEN 0
    ELSE LET item == CHOOSE i \in items : TRUE
         IN  EntrySize(calculate_size(f, Join(path, item)))
             + SumItems(f, path, items \ {item})

calculate_size(f, path) ==
    IF Dirname(path) = Root THEN Return(0)
    ELSE IF IsFile(f, path) THEN Return(GetSize(f, path))
    ELSE IF IsPlainDir(f, path)
         THEN IF ~Target(f, path).listable THEN Raise("OSError")   \* os.listdir
              ELSE Return(GetSize(f, path) + SumItems(f, path, Listdir(f, path)))
    ELSE Return(0)

\* the tree the model grows: /m/d with the entries f and s, and s/g below
MaxSize == 2
Sizes == 1..MaxSize
TreePaths ==
    {<<"m", "d">>, <<"m", "d", "f">>, <<"m", "d", "s">>,
     <<"m", "d", "s", "g">>}
Nodes ==
    {Absent, Other, Link(Absent), Link(Dir(1, TRUE))}
    \cup {File(n) : n \in Sizes}
    \cup {Link(File(n)) : n \in Sizes}
    \cup {Dir(n, l) : n \in Sizes, l \in BOOLEAN}

InitSize ==
    /\ fs = [q \in TreePaths |-> Absent]
    /\ call = Root
    /\ NoGui /\ NoLocale /\ NotCalled

\* other filesystem activity: a node appears, changes or goes; an entry
\* needs a directory above it, and only an empty directory can be replaced
FsChange ==
    \E q \in TreePaths, n \in Nodes :
        /\ fs[q] # n
        /\ NodeAt(fs, Dirname(q)).kind = "dir"
        /\ Listdir(fs, q) = {}
        /\ fs' = [fs EXCEPT ![q] = n]
        /\ pc' = "idle"
        /\ ret' = NoCall
        /\ call' = Root
        /\ UNCHANGED <<icon_cache, icon_theme, loaded, lc_time>>

CalculateSize ==
    \E path \in TreePaths \cup {Root, Mount} :
        /\ call' = path
        /\ pc' = "done"
        /\ ret' = calculate_size(fs, path)
        /\ UNCHANGED <<fs, icon_cache, icon_theme, loaded, lc_time>>

NextSize == FsChange \/ CalculateSize
SpecSize == InitSize /\ [][NextSize]_vars

Pinned == [kind |-> "file", size |-> 1, pinned |-> TRUE]

\* path + '.cover.jpg'
COVER == <<".", "c", "o", "v", "e", "r", ".", "j", "p", "g">>
CoverPath(path) == path \o COVER

\* whether os.unlink(path) succeeds; it raises OSError otherwise
CanUnlink(f, path) ==
    LET n == NodeAt(f, path)
    IN  n.kind \in {"file", "link", "other"} /\ "pinned" \notin DOMAIN n
Unlinked(f, path) == [f EXCEPT ![path] = Absent]

\* the filesystem delete_file(path) leaves; every exception ends the try block
delete_file(f, path) ==
    IF ~CanUnlink(f, path) THEN f
    ELSE LET f1 == Unlinked(f, path)
             cover_path == CoverPath(path)
         IN  IF ~IsFile(f1, cover_path) THEN f1
             ELSE IF ~CanUnlink(f1, cover_path) THEN f1
             ELSE Unlinked(f1, cover_path)

\* the downloads the model holds, each with its cover
Downloads == {<<"a">>, <<"b">>}
DownloadPaths == Downloads \cup {CoverPath(d) : d \in Downloads}
DownloadNodes == {Absent, File(1), Pinned, Dir(1, TRUE)}

InitDelete ==
    /\ fs \in [DownloadPaths -> {Absent, File(1)}]
    /\ call = Root
    /\ NoGui /\ NoLocale /\ NotCalled

\* other filesystem activity on the download folder
DownloadsChange ==
    \E q \in DownloadPaths, n \in DownloadNodes :
        /\ fs[q] # n
        /\ fs' = [fs EXCEPT ![q] = n]
        /\ pc' = "idle"
        /\ ret' = NoCall
        /\ call' = Root
        /\ UNCHANGED <<icon_cache, icon_theme, loaded, lc_time>>

DeleteFile ==
    \E path \in Downloads :
        /\ call' = path
        /\ pc' = "done"
        /\ fs' = delete_file(fs, path)
        /\ ret' = Return(None)
        /\ UNCHANGED <<icon_cache, icon_theme, loaded, lc_time>>

NextDelete == DownloadsChange \/ DeleteFile
SpecDelete == InitDelete /\ [][NextDelete]_vars

\* C3: delete_file(path) never propagates an error, and whenever the file
\* path + '.cover.jpg' exists at the time of the call it has been deleted when
\* the call returns, whatever the state of path itself; when path exists and
\* is deletable it has been deleted too.
C3_AsClaimed ==
    [][pc' = "done" =>
          /\ ret'.out = "return"
          /\ IsFile(fs, CoverPath(call')) => fs'[CoverPath(call')] = Absent
          /\ CanUnlink(fs, call') => fs'[call'] = Absent]_vars

(***************************************************************************)
(* make_directory                                                          *)
(*                                                                         *)
(* The check (os.path.isdir) and the creation (os.makedirs) are two steps, *)
(* and other processes may change the filesystem between them.             *)
(***************************************************************************)
\* a directory in which nothing can be created (no write permission)
ReadOnlyDir == [kind |-> "dir", size |-> 1, listable |-> TRUE, readonly |-> TRUE]

\* os.path.exists(path)
Exists(f, path) == Target(f, path).kind # "absent"

\* os.mkdir(path): [ok, fs]; it fails when path exists, when its parent is
\* no directory and when the parent is not writable
Mkdir(f, path) ==
    LET parent == Target(f, Dirname(path))
    IN  IF \/ NodeAt(f, path).kind # "absent"
           \/ parent.kind # "dir"
           \/ "readonly" \in DOMAIN parent
        THEN [ok |-> FALSE, fs |-> f]
        ELSE [ok |-> TRUE, fs |-> [f EXCEPT ![path] = Dir(1, TRUE)]]

\* os.makedirs(path): the missing parents first, then path itself
RECURSIVE Makedirs(_, _)
Makedirs(f, path) ==
    IF Len(path) > 1 /\ ~Exists(f, Dirname(path))
    THEN LET head == Makedirs(f, Dirname(path))
         IN  IF head.ok THEN Mkdir(head.fs, path) ELSE head
    ELSE Mkdir(f, path)

DirPaths == {<<"p">>, <<"p", "d">>, <<"p", "d", "e">>}
DirNodes == {Absent, File(1), Dir(1, TRUE), ReadOnlyDir}

InitMkdir ==
    /\ fs = [q \in DirPaths |-> Absent]
    /\ call = Root
    /\ NoGui /\ NoLocale /\ NotCalled

\* another process creates, removes or replaces a node; what a finished
\* call returned described the filesystem of that moment only
OtherProcess ==
    \E q \in DirPaths, n \in DirNodes :
        /\ fs[q] # n
        /\ NodeAt(fs, Dirname(q)).kind = "dir"
        /\ Listdir(fs, q) = {}
        /\ fs' = [fs EXCEPT ![q] = n]
        /\ pc' = IF pc = "done" THEN "idle" ELSE pc
        /\ ret' = IF pc = "done" THEN NoCall ELSE ret
        /\ call' = IF pc = "done" THEN Root ELSE call
        /\ UNCHANGED <<icon_cache, icon_theme, loaded, lc_time>>

\* if os.path.isdir(path): return True
MakeDirectoryCheck ==
    \E path \in DirPaths :
        /\ pc \in {"idle", "done"}
        /\ call' = path
        /\ IF IsDir(fs, path)
           THEN pc' = "done" /\ ret' = Return(PyBool(TRUE))
           ELSE pc' = "makedirs" /\ ret' = NoCall
        /\ UNCHANGED <<fs, icon_cache, icon_theme, loaded, lc_time>>

\* try: os.makedirs(path) / except: return False / return True
MakeDirectoryCreate ==
    /\ pc = "makedirs"
    /\ LET made == Makedirs(fs, call)
       IN  /\ fs' = made.fs
           /\ ret' = Return(PyBool(made.ok))
    /\ pc' = "done"
    /\ UNCHANGED <<icon_cache, icon_theme, loaded, lc_time, call>>

NextMkdir == OtherProcess \/ MakeDirectoryCheck \/ MakeDirectoryCreate
SpecMkdir == InitMkdir /\ [][NextMkdir]_vars

\* C4: make_directory(path) returns True if and only if path is a directory
\* at the moment the call returns, in every interleaving with other
\* filesystem activity on the same path; it never raises.
C4_AsClaimed ==
    pc = "done" =>
        /\ ret.out = "return"
        /\ ret.value = PyBool(IsDir(fs, call))

(***************************************************************************)
(* updated_parsed_to_rfc2822                                               *)
(***************************************************************************)
\* the LC_TIME locales the process may run under, by setlocale's name
Locales == {"C", "de_DE.UTF-8", "fr_FR.ISO8859-1", "en_US.UTF-8"}
Name(n) == [type |-> "str", name |-> n]

\* locale.getlocale(LC_TIME): the (language code, encoding) of the setting
Getlocale(setting) ==
    CASE setting = "C" -> <<None, None>>
      [] setting = "de_DE.UTF-8" -> <<Name("de_DE"), Name("UTF-8")>>
      [] setting = "fr_FR.ISO8859-1" -> <<Name("fr_FR"), Name("ISO8859-1")>>
      [] setting = "en_US.UTF-8" -> <<Name("en_US"), Name("UTF-8")>>

\* locale.setlocale(LC_TIME, 'C')
SetlocaleName(name) == name
\* locale.setlocale(LC_TIME, (language code, encoding)): the setting is
\* language + '.' + encoding, and 'C' for no language
SetlocalePair(pair) ==
    IF pair[1] = None THEN "C"
    ELSE CHOOSE l \in Locales \ {"C"} : Getlocale(l) = pair

DayAbbr == <<"Mon", "Tue", "Wed", "Thu", "Fri", "Sat", "Sun">>
MonthAbbr ==
    <<"Jan", "Feb", "Mar", "Apr", "May", "Jun",
      "Jul", "Aug", "Sep", "Oct", "Nov", "Dec">>

\* time.strftime('%a, %d %b %Y %H:%M:%S GMT', t) in the C locale: the fields
\* of the text, or the error for what is no time tuple or is out of range
Strftime(updated_parsed) ==
    IF updated_parsed = None THEN Raise("TypeError")
    ELSE LET t == updated_parsed.t IN
         IF t[1] < 1900 THEN Raise("ValueError")
    ELSE IF t[2] \notin 0..12 \/ t[7] \notin 0..6 THEN Raise("ValueError")
    ELSE Return([a |-> DayAbbr[t[7] + 1], d |-> t[3],
                 b |-> MonthAbbr[IF t[2] = 0 THEN 1 ELSE t[2]], Y |-> t[1],
                 H |-> t[4], M |-> t[5], S |-> t[6], zone |-> "GMT"])

\* the call: [locale, ret]; a raising strftime ends it before the last line
updated_parsed_to_rfc2822(locale, updated_parsed) ==
    LET old_locale == Getlocale(locale)
        inC == SetlocaleName("C")
        result == Strftime(updated_parsed)
    IN  IF result.out = "raise" THEN [locale |-> inC, ret |-> result]
        ELSE [locale |-> SetlocalePair(old_locale), ret |-> result]

\* feedparser's updated_parsed: None for a date it could not parse, else a
\* 9-tuple; the model varies year, month and weekday
MaxMonth == 13
ParsedDates ==
    {None} \cup
    {[type |-> "tuple", t |-> <<y, mo, 4, 12, 30, 0, wd, 216, 0>>] :
        y \in {1899, 1970, 2007}, mo \in 0..MaxMonth, wd \in 0..6}

InitRfc2822 ==
    /\ lc_time \in Locales
    /\ call = None
    /\ NoFs /\ NoGui /\ NotCalled

UpdatedParsedToRfc2822 ==
    \E updated_parsed \in ParsedDates :
        LET done == updated_parsed_to_rfc2822(lc_time, updated_parsed)
        IN  /\ call' = updated_parsed
            /\ pc' = "done"
            /\ lc_time' = done.locale
            /\ ret' = done.ret
            /\ UNCHANGED <<fs, icon_cache, icon_theme, loaded>>

SpecRfc2822 == InitRfc2822 /\ [][UpdatedParsedToRfc2822]_vars

\* C2: after any sequence of updated_parsed_to_rfc2822 calls LC_TIME equals
\* its value before the first call: each call restores the prior locale on
\* every way it can end, whether it returns a string or the formatting fails.
C2_AsClaimed == [][lc_time' = lc_time]_vars

(***************************************************************************)
(* get_tree_icon                                                           *)
(***************************************************************************)
STOCK_DIALOG_QUESTION == "gtk-dialog-question"
STOCK_YES == "gtk-yes"
IconNames == {"audio-x-generic", "video-x-generic"}
ThemeNames == IconNames \cup {STOCK_DIALOG_QUESTION, STOCK_YES}

\* a gtk.gdk.Pixbuf: the icon it shows and whether the emblem was composited
Pixbuf(name, emblem) == [type |-> "Pixbuf", name |-> name, emblem |-> emblem]
Dict(d) == [type |-> "dict", d |-> d]

\* icon_theme.load_icon(name, size, 0): raises when the theme has no such icon
LoadIcon(theme, name) ==
    IF name \in theme THEN Return(Pixbuf(name, FALSE)) ELSE Raise("GError")

CacheHit_wrongkey(cache, icon_name, add_bullet) ==
    cache # None /\ <<icon_name>> \in DOMAIN cache.d

\* icon_cache != None and (icon_name,add_bullet) in icon_cache
CacheHit(cache, icon_name, add_bullet) ==
    cache # None /\ <<icon_name, add_bullet>> \in DOMAIN cache.d

\* the call: [ret, cache, loaded], loaded being the theme lookups it made
get_tree_icon(theme, icon_name, add_bullet, cache) ==
    LET key == <<icon_name, add_bullet>>
        first == LoadIcon(theme, icon_name)
        fallback == LoadIcon(theme, STOCK_DIALOG_QUESTION)
        base == IF first.out = "return" THEN first ELSE fallback
        lookups == IF first.out = "return" THEN <<icon_name>>
                   ELSE <<icon_name, STOCK_DIALOG_QUESTION>>
        emblem == LoadIcon(theme, STOCK_YES)
        \* icon.copy(), then the emblem if it loads; a failure is logged
        icon == IF add_bullet /\ emblem.out = "return"
                THEN Pixbuf(base.value.name, TRUE)
                ELSE base.value
    IN  IF CacheHit(cache, icon_name, add_bullet)
        THEN [ret |-> Return(cache.d[key]), cache |-> cache, loaded |-> <<>>]
        ELSE IF base.out = "raise"
             \* the fallback lookup is outside any try block
             THEN [ret |-> base, cache |-> cache, loaded |-> lookups]
        ELSE [ret |-> Return(icon),
              cache |-> IF cache = None THEN None
                        ELSE Dict([k \in DOMAIN cache.d \cup {key} |->
                                      IF k = key THEN icon ELSE cache.d[k]]),
              loaded |-> IF add_bullet THEN Append(lookups, STOCK_YES)
                         ELSE lookups]

InitIcons ==
    /\ icon_cache = <<>>
    /\ icon_theme = ThemeNames
    /\ loaded = <<>>
    /\ call = None
    /\ NoFs /\ NoLocale /\ NotCalled

\* the user switches to an icon theme that has other icons
ThemeChange ==
    \E theme \in SUBSET ThemeNames :
        /\ theme # icon_theme
        /\ icon_theme' = theme
        /\ pc' = "idle"
        /\ call' = None
        /\ ret' = NoCall
        /\ loaded' = <<>>
        /\ UNCHANGED <<fs, icon_cache, lc_time>>

GetTreeIcon ==
    \E icon_name \in IconNames, add_bullet \in BOOLEAN, with_cache \in BOOLEAN :
        LET done == get_tree_icon(icon_theme, icon_name, add_bullet,
                                  IF with_cache THEN Dict(icon_cache) ELSE None)
        IN  /\ call' = [icon_name |-> icon_name, add_bullet |-> add_bullet,
                        with_cache |-> with_cache]
            /\ pc' = "done"
            /\ ret' = done.ret
            /\ loaded' = done.loaded
            /\ icon_cache' = IF with_cache THEN done.cache.d ELSE icon_cache
            /\ UNCHANGED <<fs, icon_theme, lc_time>>

NextIcons == ThemeChange \/ GetTreeIcon
SpecIcons == InitIcons /\ [][NextIcons]_vars

====
